---- MODULE Spec2Model ----
(***************************************************************************)
(* Model of the glcc backend: the package store (crud.py), the batch       *)
(* refresh loop in its two copies (scheduler.py refresh_all_packages, run  *)
(* by the APScheduler worker thread, and routers/packages.py               *)
(* refresh_all_packages, run by the HTTP event loop), the single-package   *)
(* handlers, and the scheduler's start/stop/status functions.              *)
(*                                                                         *)
(* Threads.  The HTTP handlers are "async def" functions whose bodies      *)
(* never await, so the event loop runs each of them to completion before   *)
(* it takes the next request: handlers are atomic with respect to each     *)
(* other.  The scheduled job runs on a worker thread of the scheduler's    *)
(* executor and interleaves with the handlers.  Each loop iteration reads  *)
(* only the package objects loaded by get_packages at the start of the run *)
(* and touches the store in update_package_status, so one iteration is one *)
(* step of the model.                                                      *)
(*                                                                         *)
(* The carrier detector (carrier_detector.py) and the two adapters         *)
(* (trackers/kr_adapter.py, trackers/global_scraper.py) are modelled as    *)
(* called on their own: DetectSpec and NormalizeSpec for the detector's    *)
(* registry and its pure functions over strings, AdapterSpec for one       *)
(* adapter call at a time with the backend's behaviour as the input.       *)
(***************************************************************************)
EXTENDS Integers, Sequences, FiniteSets, TLC

\* ------------------------------------------------------------------ bounds
MaxPkgs == 2          \* packages ever registered (primary keys 1..MaxPkgs)
MaxHours == 2         \* interval_hours arguments tried: 1..MaxHours
MaxAdded == 2         \* rules appended to the registry at run time
MaxLen == 3           \* length of the strings given to normalization

Ids == 1..MaxPkgs     \* package id p carries tracking number p
Hours == 1..MaxHours

\* ------------------------------------------------------------------ values
NoStatus == "None"                         \* models.py: status nullable
Statuses == {"In transit", "Delivered"}    \* status texts an adapter reports
Carriers == {"kr.cj", "global.ups", "xx.unknown"}

\* str.startswith on the carrier ids of the model
StartsWithKr(carrier) == carrier \in {"kr.cj"}
StartsWithGlobal(carrier) == carrier \in {"global.ups"}

\* the letters str.lower() and str.upper() exchange
LowerSeq == <<"a", "b", "c", "d", "e", "f", "g", "h", "i", "j", "k", "l", "m",
              "n", "o", "p", "q", "r", "s", "t", "u", "v", "w", "x", "y", "z">>
UpperSeq == <<"A", "B", "C", "D", "E", "F", "G", "H", "I", "J", "K", "L", "M",
              "N", "O", "P", "Q", "R", "S", "T", "U", "V", "W", "X", "Y", "Z">>

\* str.lower() on a text given as the sequence of its characters; the
\* characters without a lower-case form are left as they are
lower(s) ==
    [i \in 1..Len(s) |->
        IF \E k \in 1..Len(UpperSeq) : UpperSeq[k] = s[i]
        THEN LowerSeq[CHOOSE k \in 1..Len(UpperSeq) : UpperSeq[k] = s[i]]
        ELSE s[i]]

\* word in s
Contains(s, word) ==
    \E i \in 1..(Len(s) - Len(word) + 1) :
        SubSeq(s, i, i + Len(word) - 1) = word

\* the two words of scheduler.py:68; each Hangul syllable is one character,
\* written by its code point
DeliveredWord == <<"d", "e", "l", "i", "v", "e", "r", "e", "d">>
BaedalWanryo == <<"\\ubc30", "\\ub2ec", "\\uc644", "\\ub8cc">>

\* further status texts a carrier reports, for the change test on its own
MoreStatuses ==
    {"DELIVERED", "Package delivered to front door", "Out for delivery",
     "\\ubc30\\ub2ec\\uc644\\ub8cc", "\\ubc30\\ub2ec\\ucd9c\\ubc1c"}

\* the characters of the status texts of the model
Text(status) ==
    CASE status = "In transit" ->
            <<"I", "n", " ", "t", "r", "a", "n", "s", "i", "t">>
      [] status = "Delivered" ->
            <<"D", "e", "l", "i", "v", "e", "r", "e", "d">>
      [] status = "DELIVERED" ->
            <<"D", "E", "L", "I", "V", "E", "R", "E", "D">>
      [] status = "Package delivered to front door" ->
            <<"P", "a", "c", "k", "a", "g", "e", " ", "d", "e", "l", "i", "v",
              "e", "r", "e", "d", " ", "t", "o", " ", "f", "r", "o", "n", "t",
              " ", "d", "o", "o", "r">>
      [] status = "Out for delivery" ->
            <<"O", "u", "t", " ", "f", "o", "r", " ", "d", "e", "l", "i", "v",
              "e", "r", "y">>
      [] status = "\\ubc30\\ub2ec\\uc644\\ub8cc" ->
            <<"\\ubc30", "\\ub2ec", "\\uc644", "\\ub8cc">>
      [] status = "\\ubc30\\ub2ec\\ucd9c\\ubc1c" ->
            <<"\\ubc30", "\\ub2ec", "\\ucd9c", "\\ubc1c">>

\* mutant: the test for "delivered" without lower()
IsDeliveredCaseSensitive(new_status) ==
    \/ Contains(Text(new_status), DeliveredWord)
    \/ Contains(Text(new_status), BaedalWanryo)

\* scheduler.py:68  "delivered" in new_status.lower() or "배달완료" in new_status
IsDelivered(new_status) ==
    \/ Contains(lower(Text(new_status)), DeliveredWord)
    \/ Contains(Text(new_status), BaedalWanryo)

\* ------------------------------------------------------------------ state
VARIABLES
    store,        \* packages table: id -> row
    job,          \* scheduler.py refresh_all_packages on the worker thread
    req,          \* routers/packages.py refresh_all_packages on the event loop
    sched,        \* the BackgroundScheduler object
    report,       \* what get_scheduler_status returned last
    calls,        \* the last two calls of start/stop/status (history)
    last,         \* the loop iteration that just ran (history, cleared by
                  \* every other step)
    unnotified,   \* history: id -> the persisted status changed since the
                  \* last change notification for the package
    attempt,      \* history: the tracking attempt a request handler made
                  \* last (create_package, track_package) and how it ended
    registry,     \* carrier_detector.CARRIER_PATTERNS
    detection,    \* the last call of the carrier detector and what it returned
    call          \* an adapter call (track_kr, track_global) in progress

vars == <<store, job, req, sched, report, calls, last, unnotified, attempt,
          registry, detection, call>>

\* ------------------------------------------------------------------ store
Row(c, st, act, ntf, td) ==
    [life |-> "present", carrier |-> c, status |-> st, is_active |-> act,
     notify_enabled |-> ntf, tracking_data |-> td]

NoRow(l) ==
    [life |-> l, carrier |-> "", status |-> NoStatus, is_active |-> FALSE,
     notify_enabled |-> FALSE, tracking_data |-> NoStatus]

Present(p) == store[p].life = "present"

\* crud.get_packages(db, active_only=True): the active rows in table order
RECURSIVE ActiveFrom(_)
ActiveFrom(p) ==
    IF p > MaxPkgs THEN <<>>
    ELSE IF Present(p) /\ store[p].is_active
         THEN <<p>> \o ActiveFrom(p + 1)
         ELSE ActiveFrom(p + 1)

get_packages == ActiveFrom(1)

\* mutant: the new status is set on the object but never committed
update_package_status_uncommitted(tn, status, tracking_data) == store

\* mutant: a tracking number with no row gets one
update_package_status_upsert(tn, status, tracking_data) ==
    IF Present(tn)
    THEN [store EXCEPT ![tn].status = status,
                       ![tn].tracking_data = tracking_data]
    ELSE [store EXCEPT ![tn] = Row("", status, TRUE, TRUE, tracking_data)]

\* crud.update_package_status (crud.py:48-60) when db.commit() succeeds: the
\* table after the call.  A tracking number with no row leaves the table
\* alone (the function returns None before it reaches the commit).
update_package_status(tn, status, tracking_data) ==
    IF Present(tn)
    THEN [store EXCEPT ![tn].status = status,
                       ![tn].tracking_data = tracking_data]
    ELSE store

\* ------------------------------------------------------------------ adapters
\* What track_kr returns (kr_adapter.py:74-119): a success with a status
\* text, or a failure with a message; it never raises.
Ok(st) == [success |-> TRUE, status |-> st, error |-> ""]
Err(msg) == [success |-> FALSE, status |-> NoStatus, error |-> msg]
Results == {Ok(st) : st \in Statuses} \cup {Err("tracker unreachable")}

\* How the loops obtain "result" for a carrier id.  track_global is an
\* "async def" (global_scraper.py:344) that both loops call without await:
\* the value is a coroutine object, no backend is contacted, and the
\* following result.get("success") raises AttributeError.
Dispatch(carrier) ==
    IF StartsWithKr(carrier) THEN "kr"
    ELSE IF StartsWithGlobal(carrier) THEN "coroutine"
    ELSE "unknown"

\* ------------------------------------------------------------------ notifier
\* notifications.py: the three messages, by the arguments they are given
StatusNote(pkg, old, new) ==
    [kind |-> "status_changed", tracking_number |-> pkg.tracking_number,
     carrier |-> pkg.carrier, old_status |-> old, new_status |-> new,
     error |-> ""]
DeliveredNote(pkg) ==
    [kind |-> "delivered", tracking_number |-> pkg.tracking_number,
     carrier |-> pkg.carrier, old_status |-> NoStatus,
     new_status |-> NoStatus, error |-> ""]
ErrorNote(pkg, msg) ==
    [kind |-> "error", tracking_number |-> pkg.tracking_number,
     carrier |-> pkg.carrier, old_status |-> NoStatus,
     new_status |-> NoStatus, error |-> msg]

\* mutant: the change test without the comparison of old and new status
StatusChangedAlways(old_status, new_status, notify_enabled) ==
    old_status # NoStatus /\ notify_enabled

\* mutant: the change test without the test that a status was set before
StatusChangedFromUnset(old_status, new_status, notify_enabled) ==
    old_status # new_status /\ notify_enabled

\* scheduler.py:64  the change test of the scheduled loop
StatusChanged(old_status, new_status, notify_enabled) ==
    old_status # NoStatus /\ old_status # new_status /\ notify_enabled

\* mutant: the delivered branch does not replace the status-changed one
ChangeNotesBoth(pkg, new_status) ==
    IF pkg.status # NoStatus /\ pkg.status # new_status /\ pkg.notify_enabled
    THEN (IF IsDelivered(new_status) THEN <<DeliveredNote(pkg)>> ELSE <<>>)
         \o <<StatusNote(pkg, pkg.status, new_status)>>
    ELSE <<>>

\* scheduler.py:63-81  the notifications of a successful fetch
ChangeNotes(pkg, new_status) ==
    IF StatusChanged(pkg.status, new_status, pkg.notify_enabled)
    THEN IF IsDelivered(new_status)
         THEN <<DeliveredNote(pkg)>>
         ELSE <<StatusNote(pkg, pkg.status, new_status)>>
    ELSE <<>>

\* mutant: the error notification without the test of notify_enabled
FailureNotesAlways(pkg, msg) == <<ErrorNote(pkg, msg)>>

\* scheduler.py:84-95  the notifications of a failed fetch
FailureNotes(pkg, msg) ==
    IF pkg.notify_enabled THEN <<ErrorNote(pkg, msg)>> ELSE <<>>

\* ------------------------------------------------------------------ loops
\* One iteration of the scheduled loop (scheduler.py:40-99) for the loaded
\* package object pkg, the adapter's answer and whether db.commit() raises
\* in update_package_status (crud.py:58): how the package is counted,
\* whether the status is committed, and the notifications sent.
\*
\* Neither loop calls db.rollback().  A commit that raises leaves the
\* session's transaction rolled back and inactive and every loaded object
\* expired; the handler counts the package (scheduler.py:98) and then
\* formats package.tracking_number (scheduler.py:99), whose reload raises on
\* the inactive session from inside the handler: the exception leaves the
\* for loop (aborts).
\* mutant: the failure branch writes the (unset) status of the answer back
JobOutcomeWritesFailure(pkg, result, dbfail) ==
    CASE Dispatch(pkg.carrier) = "unknown" ->
            [counted |-> "skipped", write |-> FALSE, aborts |-> FALSE,
             notes |-> <<>>]
      [] Dispatch(pkg.carrier) = "coroutine" ->
            [counted |-> "error", write |-> FALSE, aborts |-> FALSE,
             notes |-> <<>>]
      [] Dispatch(pkg.carrier) = "kr" /\ result.success /\ dbfail ->
            [counted |-> "error", write |-> FALSE, aborts |-> TRUE,
             notes |-> <<>>]
      [] Dispatch(pkg.carrier) = "kr" /\ result.success /\ ~dbfail ->
            [counted |-> "success", write |-> TRUE, aborts |-> FALSE,
             notes |-> ChangeNotes(pkg, result.status)]
      [] Dispatch(pkg.carrier) = "kr" /\ ~result.success ->
            [counted |-> "error", write |-> TRUE, aborts |-> FALSE,
             notes |-> FailureNotes(pkg, result.error)]

JobOutcome(pkg, result, dbfail) ==
    CASE Dispatch(pkg.carrier) = "unknown" ->
            [counted |-> "skipped", write |-> FALSE, aborts |-> FALSE,
             notes |-> <<>>]
      [] Dispatch(pkg.carrier) = "coroutine" ->
            [counted |-> "error", write |-> FALSE, aborts |-> FALSE,
             notes |-> <<>>]
      [] Dispatch(pkg.carrier) = "kr" /\ result.success /\ dbfail ->
            [counted |-> "error", write |-> FALSE, aborts |-> TRUE,
             notes |-> <<>>]
      [] Dispatch(pkg.carrier) = "kr" /\ result.success /\ ~dbfail ->
            [counted |-> "success", write |-> TRUE, aborts |-> FALSE,
             notes |-> ChangeNotes(pkg, result.status)]
      [] Dispatch(pkg.carrier) = "kr" /\ ~result.success ->
            [counted |-> "error", write |-> FALSE, aborts |-> FALSE,
             notes |-> FailureNotes(pkg, result.error)]

\* One iteration of the on-demand loop (routers/packages.py:151-183): as
\* above, with the entry appended to results["errors"] (<<>> for none).
\* After a commit that raised, the handler counts the package
\* (routers/packages.py:179) and raises while it builds the entry from
\* package.tracking_number (routers/packages.py:180-183).
ReqOutcome(pkg, result, dbfail) ==
    CASE Dispatch(pkg.carrier) = "unknown" ->
            [counted |-> "failed", write |-> FALSE, aborts |-> FALSE,
             errors |-> <<[tracking_number |-> pkg.tracking_number,
                           error |-> "Unknown carrier prefix"]>>]
      [] Dispatch(pkg.carrier) = "coroutine" ->
            [counted |-> "failed", write |-> FALSE, aborts |-> FALSE,
             errors |-> <<[tracking_number |-> pkg.tracking_number,
                           error |-> "AttributeError"]>>]
      [] Dispatch(pkg.carrier) = "kr" /\ result.success /\ dbfail ->
            [counted |-> "failed", write |-> FALSE, aborts |-> TRUE, errors |-> <<>>]
      [] Dispatch(pkg.carrier) = "kr" /\ result.success /\ ~dbfail ->
            [counted |-> "success", write |-> TRUE, aborts |-> FALSE,
             errors |-> <<>>]
      [] Dispatch(pkg.carrier) = "kr" /\ ~result.success ->
            [counted |-> "failed", write |-> FALSE, aborts |-> FALSE,
             errors |-> <<[tracking_number |-> pkg.tracking_number,
                           error |-> result.error]>>]

\* The packages not yet visited after an iteration
Remaining(packages, outcome) == Tail(packages)

\* history: the iteration did not end in a fetched and written status
Failed(pkg, result, dbfail) ==
    ~(Dispatch(pkg.carrier) = "kr" /\ result.success /\ ~dbfail)

\* history: what the adapter call of the iteration came to
Adapter(pkg, result) ==
    CASE Dispatch(pkg.carrier) = "unknown" -> "not_contacted"
      [] Dispatch(pkg.carrier) = "coroutine" -> "exception"
      [] Dispatch(pkg.carrier) = "kr" /\ result.success -> "success"
      [] Dispatch(pkg.carrier) = "kr" /\ ~result.success -> "failure"

NoLast ==
    [run |-> "none", tracking_number |-> 0, old_status |-> NoStatus,
     notify_enabled |-> FALSE, adapter |-> "none", fetched |-> NoStatus,
     dbfail |-> FALSE, counted |-> "none", notes |-> <<>>]

IdleJob ==
    [pc |-> "idle", packages |-> <<>>, total |-> 0, success_count |-> 0,
     error_count |-> 0, sent |-> <<>>, failed |-> <<>>]

IdleReq ==
    [pc |-> "idle", packages |-> <<>>,
     results |-> [total |-> 0, success |-> 0, failed |-> 0, errors |-> <<>>],
     failed |-> <<>>]

\* ------------------------------------------------------------------ scheduled run
\* the fields of a row the scheduled loop reads from the loaded object
JobPackage(p) ==
    [tracking_number |-> p, carrier |-> store[p].carrier,
     status |-> store[p].status, notify_enabled |-> store[p].notify_enabled]

\* the fields the on-demand loop reads
ReqPackage(p) == [tracking_number |-> p, carrier |-> store[p].carrier]

Count(b) == IF b THEN 1 ELSE 0

\* Where the run stands after an iteration.  An exception raised inside the
\* loop's handler leaves the loop: the scheduled run logs it and closes the
\* session (scheduler.py:103-106), the on-demand request fails.  Otherwise
\* the try/except inside the for loop (scheduler.py:40,97;
\* routers/packages.py:151,178) keeps the loop going, and a loop with
\* nothing left to visit falls through to its last statement.
After(packages, aborts) ==
    IF aborts THEN "aborted"
    ELSE IF packages = <<>> THEN "done" ELSE "loop"

\* The scheduler's worker thread calls refresh_all_packages (scheduler.py:
\* 29-37).  The job is installed with the default max_instances of 1, so no
\* second instance starts while one runs.
JobStart ==
    /\ sched.running
    /\ sched.jobs # <<>>
    /\ job.pc = "idle"
    /\ job' = [IdleJob EXCEPT
                 !.pc = After(get_packages, FALSE),
                 !.packages = [i \in 1..Len(get_packages) |->
                                  JobPackage(get_packages[i])],
                 !.total = Len(get_packages)]
    /\ last' = NoLast
    /\ UNCHANGED <<store, req, sched, report>>

\* scheduler.py:39-101, one pass through the loop body; after the last one
\* the tallies are logged ("Refresh complete")
JobIterate(result, dbfail) ==
    /\ job.pc = "loop"
    /\ LET pkg == Head(job.packages)
           tn == pkg.tracking_number
           raises == dbfail /\ Present(tn)
           o == JobOutcome(pkg, result, raises)
       IN  /\ store' = IF o.write
                       THEN update_package_status(tn, result.status,
                                                  result.status)
                       ELSE store
           /\ job' = [job EXCEPT
                        !.pc = After(Remaining(job.packages, o), o.aborts),
                        !.packages = Remaining(@, o),
                        !.success_count = @ + Count(o.counted = "success"),
                        !.error_count = @ + Count(o.counted = "error"),
                        !.sent = @ \o o.notes,
                        !.failed = @ \o (IF Failed(pkg, result, raises)
                                         THEN <<tn>> ELSE <<>>)]
           /\ last' = [run |-> "job", tracking_number |-> tn,
                       old_status |-> pkg.status,
                       notify_enabled |-> pkg.notify_enabled,
                       adapter |-> Adapter(pkg, result),
                       fetched |-> IF Adapter(pkg, result) = "success"
                                   THEN result.status ELSE NoStatus,
                       dbfail |-> raises /\ Adapter(pkg, result) = "success",
                       counted |-> o.counted,
                       notes |-> o.notes]
    /\ UNCHANGED <<req, sched, report>>

\* scheduler.py:105-106  the function returns to the executor
JobReturn ==
    /\ job.pc \in {"done", "aborted"}
    /\ job' = IdleJob
    /\ last' = NoLast
    /\ UNCHANGED <<store, req, sched, report>>

\* ------------------------------------------------------------------ on-demand run
\* the event loop takes a request only when no handler is running and it is
\* not blocked inside scheduler.shutdown(wait=True)
LoopFree == req.pc = "idle" /\ ~sched.waiting

\* POST /packages/refresh, routers/packages.py:141-148
ReqStart ==
    /\ LoopFree
    /\ req' = [IdleReq EXCEPT
                 !.pc = After(get_packages, FALSE),
                 !.packages = [i \in 1..Len(get_packages) |->
                                  ReqPackage(get_packages[i])],
                 !.results.total = Len(get_packages)]
    /\ last' = NoLast
    /\ UNCHANGED <<store, job, sched, report>>

\* routers/packages.py:150-183, one pass through the loop body
ReqIterate(result, dbfail) ==
    /\ req.pc = "loop"
    /\ LET pkg == Head(req.packages)
           tn == pkg.tracking_number
           raises == dbfail /\ Present(tn)
           o == ReqOutcome(pkg, result, raises)
       IN  /\ store' = IF o.write
                       THEN update_package_status(tn, result.status,
                                                  result.status)
                       ELSE store
           /\ req' = [req EXCEPT
                        !.pc = After(Remaining(req.packages, o), o.aborts),
                        !.packages = Remaining(@, o),
                        !.results.success = @ + Count(o.counted = "success"),
                        !.results.failed = @ + Count(o.counted = "failed"),
                        !.results.errors = @ \o o.errors,
                        !.failed = @ \o (IF Failed(pkg, result, raises)
                                         THEN <<tn>> ELSE <<>>)]
           /\ last' = [run |-> "req", tracking_number |-> tn,
                       old_status |-> NoStatus,
                       notify_enabled |-> FALSE,
                       adapter |-> Adapter(pkg, result),
                       fetched |-> IF Adapter(pkg, result) = "success"
                                   THEN result.status ELSE NoStatus,
                       dbfail |-> raises /\ Adapter(pkg, result) = "success",
                       counted |-> o.counted,
                       notes |-> <<>>]
    /\ UNCHANGED <<job, sched, report>>

\* routers/packages.py:185  return results, or the exception that left the
\* loop: the response is sent and the event loop is free again
ReqReturn ==
    /\ req.pc \in {"done", "aborted"}
    /\ req' = IdleReq
    /\ last' = NoLast
    /\ UNCHANGED <<store, job, sched, report>>

\* ------------------------------------------------------------------ handlers
\* the primary key the next INSERT gets: keys are handed out in order
NextId == IF \E p \in Ids : store[p].life = "unborn"
          THEN CHOOSE p \in Ids : /\ store[p].life = "unborn"
                                  /\ \A q \in Ids : store[q].life = "unborn"
                                                      => p <= q
          ELSE 0

\* POST /packages/ (routers/packages.py:39-70) with the carrier given: the
\* row is created, then tracked once; a failed or raising first fetch leaves
\* the new row as created.
create_package(carrier, notify_enabled, result, dbfail) ==
    /\ LoopFree
    /\ NextId # 0
    /\ LET p == NextId
           tracked == Dispatch(carrier) = "kr" /\ result.success /\ ~dbfail
       IN  store' = [store EXCEPT ![p] =
                        IF tracked
                        THEN Row(carrier, result.status, TRUE, notify_enabled,
                                 result.status)
                        ELSE Row(carrier, NoStatus, TRUE, notify_enabled,
                                 NoStatus)]
    /\ last' = NoLast
    /\ UNCHANGED <<job, req, sched, report>>

\* PUT /packages/{id} (crud.py:34-46): is_active and notify_enabled as sent
update_package(p, is_active, notify_enabled) ==
    /\ LoopFree
    /\ Present(p)
    /\ store' = [store EXCEPT ![p].is_active = is_active,
                              ![p].notify_enabled = notify_enabled]
    /\ last' = NoLast
    /\ UNCHANGED <<job, req, sched, report>>

\* DELETE /packages/{id} (crud.py:62-70)
delete_package(p) ==
    /\ LoopFree
    /\ Present(p)
    /\ store' = [store EXCEPT ![p] = NoRow("deleted")]
    /\ last' = NoLast
    /\ UNCHANGED <<job, req, sched, report>>

\* POST /packages/{id}/track (routers/packages.py:195-234): the status is
\* written when the fetch succeeds; nothing is notified.
track_package(p, result, dbfail) ==
    /\ LoopFree
    /\ Present(p)
    /\ LET write == Dispatch(store[p].carrier) = "kr" /\ result.success
                    /\ ~dbfail
       IN  store' = IF write
                    THEN update_package_status(p, result.status,
                                               result.status)
                    ELSE store
    /\ last' = NoLast
    /\ UNCHANGED <<job, req, sched, report>>

\* ------------------------------------------------------------------ scheduler
\* The BackgroundScheduler as start_scheduler, stop_scheduler and
\* get_scheduler_status use it: running is "state is not STOPPED"; a job
\* added while stopped waits in pending until start() moves it to the job
\* store; the default job store is in memory and is emptied by shutdown().
Job(hours) == [id |-> "refresh_packages", hours |-> hours]

\* store.add_job / store.update_job under replace_existing=True: a job with
\* the id of a stored job takes its place
RECURSIVE Install(_, _)
Install(jobs, j) ==
    IF jobs = <<>> THEN <<j>>
    ELSE IF Head(jobs).id = j.id THEN <<j>> \o Tail(jobs)
    ELSE <<Head(jobs)>> \o Install(Tail(jobs), j)

RECURSIVE InstallAll(_, _)
InstallAll(jobs, pending) ==
    IF pending = <<>> THEN jobs
    ELSE InstallAll(Install(jobs, Head(pending)), Tail(pending))

\* scheduler.add_job(..., id="refresh_packages", replace_existing=True)
add_job(s, hours) ==
    IF s.running
    THEN [s EXCEPT !.jobs = Install(@, Job(hours))]
    ELSE [s EXCEPT !.pending = Append(@, Job(hours))]

\* scheduler.start()
start(s) ==
    [s EXCEPT !.jobs = InstallAll(@, s.pending), !.pending = <<>>,
              !.running = TRUE]

\* mutant: only start() is guarded, and the job is added without an id, so
\* every call adds one more job
StartSchedulerAnon(s, interval_hours) ==
    IF ~s.running
    THEN start(add_job(s, interval_hours))
    ELSE [s EXCEPT !.jobs = Append(@, Job(interval_hours))]

\* mutant: only start() is guarded, so a call on a running scheduler
\* replaces the job
StartSchedulerRearm(s, interval_hours) ==
    IF ~s.running
    THEN start(add_job(s, interval_hours))
    ELSE add_job(s, interval_hours)

\* scheduler.py:108-124: the scheduler object after start_scheduler
StartScheduler(s, interval_hours) ==
    IF ~s.running THEN start(add_job(s, interval_hours)) ELSE s

\* mutant: the job is removed but the scheduler is not shut down
StopSchedulerRemoveOnly(s, busy) == [s EXCEPT !.jobs = <<>>]

\* mutant: shutdown(wait=False), the call does not wait for the running job
StopSchedulerNoWait(s, busy) ==
    IF s.running THEN [s EXCEPT !.running = FALSE, !.jobs = <<>>] ELSE s

\* scheduler.py:126-130: the scheduler object after stop_scheduler, given
\* whether the job is running.  shutdown() marks the scheduler stopped, then
\* waits for the executor's running job, then empties the job store.
StopScheduler(s, busy) ==
    IF s.running
    THEN IF busy
         THEN [s EXCEPT !.running = FALSE, !.waiting = TRUE]
         ELSE [s EXCEPT !.running = FALSE, !.jobs = <<>>]
    ELSE s

\* scheduler.get_jobs(): the pending jobs while stopped, else the stored
get_jobs(s) == IF s.running THEN s.jobs ELSE s.pending

\* scheduler.py:132-145
get_scheduler_status(s) ==
    [running |-> s.running,
     jobs |-> [i \in 1..Len(get_jobs(s)) |->
                 [id |-> get_jobs(s)[i].id, next_run_time |-> s.running]]]

\* main.py:24-34 call start_scheduler and stop_scheduler on the event loop
start_scheduler(interval_hours) ==
    /\ LoopFree
    /\ sched' = StartScheduler(sched, interval_hours)
    /\ last' = NoLast
    /\ UNCHANGED <<store, job, req, report>>

stop_scheduler ==
    /\ LoopFree
    /\ sched' = StopScheduler(sched, job.pc # "idle")
    /\ last' = NoLast
    /\ UNCHANGED <<store, job, req, report>>

\* shutdown(wait=True) returns once the running job has ended
ShutdownReturn ==
    /\ sched.waiting
    /\ job.pc = "idle"
    /\ sched' = [sched EXCEPT !.waiting = FALSE, !.jobs = <<>>]
    /\ last' = NoLast
    /\ UNCHANGED <<store, job, req, report>>

\* GET /scheduler/status (main.py:51-54)
scheduler_status ==
    /\ LoopFree
    /\ report' = get_scheduler_status(sched)
    /\ last' = NoLast
    /\ UNCHANGED <<store, job, req, sched>>

\* ------------------------------------------------------------------ carrier detector
\* A Python str is a sequence of one-character strings; None is a value of
\* its own.
None == <<"None">>

Digit == {"0", "1", "2", "3", "4", "5", "6", "7", "8", "9"}
Upper == {UpperSeq[i] : i \in 1..Len(UpperSeq)}

\* what str.strip() removes from both ends: space, tab, newline, carriage
\* return, form feed
Whitespace == {" ", "\t", "\n", "\r", "\f"}

\* str.upper() on the characters of the model
upper(s) ==
    [i \in 1..Len(s) |->
        IF \E k \in 1..Len(LowerSeq) : LowerSeq[k] = s[i]
        THEN UpperSeq[CHOOSE k \in 1..Len(LowerSeq) : LowerSeq[k] = s[i]]
        ELSE s[i]]

RECURSIVE lstrip(_)
lstrip(s) ==
    IF s # <<>> /\ Head(s) \in Whitespace THEN lstrip(Tail(s)) ELSE s

RECURSIVE rstrip(_)
rstrip(s) ==
    IF s # <<>> /\ s[Len(s)] \in Whitespace
    THEN rstrip(SubSeq(s, 1, Len(s) - 1))
    ELSE s

strip(s) == rstrip(lstrip(s))

\* str.replace(c, ""): every occurrence of the character c removed
RECURSIVE remove(_, _)
remove(s, c) ==
    IF s = <<>> THEN <<>>
    ELSE IF Head(s) = c THEN remove(Tail(s), c)
    ELSE <<Head(s)>> \o remove(Tail(s), c)

\* carrier_detector.py:173-187
normalize_tracking_number(tracking_number) ==
    IF tracking_number = None \/ tracking_number = <<>> THEN <<>>
    ELSE remove(remove(upper(strip(tracking_number)), " "), "-")

\* A regular expression of the registry: "^", then atoms, then "$" or
\* nothing.  An atom is a piece of regex text (a character class, a
\* literal, a group of alternatives) repeated lo..hi times (more: lo or more
\* times).
Atom(text, lo, hi) == [text |-> text, lo |-> lo, hi |-> hi, more |-> FALSE]
AtLeast(text, lo) == [text |-> text, lo |-> lo, hi |-> lo, more |-> TRUE]
Anchored(atoms) == [atoms |-> atoms, dollar |-> TRUE]

ChinaPostPrefixes ==
    {<<"R", "B">>, <<"R", "C">>, <<"R", "A">>, <<"C", "P">>, <<"L", "Z">>,
     <<"L", "M">>, <<"L", "O">>, <<"E", "A">>, <<"E", "B">>, <<"E", "C">>,
     <<"E", "D">>, <<"E", "E">>, <<"E", "F">>, <<"E", "G">>, <<"E", "H">>,
     <<"E", "I">>, <<"E", "J">>, <<"E", "K">>, <<"E", "L">>, <<"E", "M">>,
     <<"Z", "C">>}

\* the strings one occurrence of the regex text matches
DigitStrings == {<<c>> : c \in Digit}
UpperStrings == {<<c>> : c \in Upper}

Alternatives(text) ==
    CASE text = "\\d" -> DigitStrings
      [] text = "[A-Z]" -> UpperStrings
      [] text = "[A-Z0-9]" -> UpperStrings \cup DigitStrings
      [] text = "JP" -> {<<"J", "P">>}
      [] text = "1Z" -> {<<"1", "Z">>}
      [] text = "(CN)" -> {<<"C", "N">>}
      [] text = "(RB|RC|RA|CP|LZ|LM|LO|EA|EB|EC|ED|EE|EF|EG|EH|EI|EJ|EK|EL|EM|ZC)"
            -> ChinaPostPrefixes

IsPrefix(a, s) == Len(a) <= Len(s) /\ SubSeq(s, 1, Len(a)) = a

\* "$" matches at the end of the string and before a newline that ends it
AtEnd(dollar, s) == ~dollar \/ s = <<>> \/ s = <<"\n">>

\* the atoms match a prefix of s (all of s up to "$"), the first atom having
\* been repeated n times already
RECURSIVE Matches(_, _, _, _)
Matches(atoms, dollar, s, n) ==
    IF atoms = <<>> THEN AtEnd(dollar, s)
    ELSE \/ /\ n >= Head(atoms).lo
            /\ Matches(Tail(atoms), dollar, s, 0)
         \/ /\ Head(atoms).more \/ n < Head(atoms).hi
            /\ \E a \in Alternatives(Head(atoms).text) :
                  /\ IsPrefix(a, s)
                  /\ Matches(atoms, dollar, SubSeq(s, Len(a) + 1, Len(s)),
                             n + 1)

\* re.match(regex, normalized) is not None
re_match(regex, s) == Matches(regex.atoms, regex.dollar, s, 0)

Pattern(type, regex, description) ==
    [type |-> type, regex |-> regex, description |-> description]

Rule(carrier, name, priority, patterns) ==
    [carrier |-> carrier, name |-> name, priority |-> priority,
     patterns |-> patterns]

DigitsOnly(lo, hi) == Anchored(<<Atom("\\d", lo, hi)>>)

KoreanDomestic ==
    <<Pattern("length", DigitsOnly(10, 13), "10-13 digits (Korean domestic)")>>

\* carrier_detector.py:13-170, the registry at import
CARRIER_PATTERNS ==
    <<Rule("global.jppost", "Japan Post", 10,
           <<Pattern("suffix",
                     Anchored(<<Atom("[A-Z]", 2, 2), Atom("\\d", 9, 9),
                                Atom("JP", 1, 1)>>),
                     "Ends with JP (e.g., EN123456789JP)")>>),
      Rule("global.ups", "UPS", 9,
           <<Pattern("prefix",
                     Anchored(<<Atom("1Z", 1, 1),
                                Atom("[A-Z0-9]", 16, 16)>>),
                     "Starts with 1Z, 18 chars total")>>),
      Rule("global.chinapost", "China Post", 9,
           <<Pattern("prefix",
                     Anchored(<<Atom("(RB|RC|RA|CP|LZ|LM|LO|EA|EB|EC|ED|EE|EF|EG|EH|EI|EJ|EK|EL|EM|ZC)",
                                     1, 1),
                                AtLeast("[A-Z0-9]", 9),
                                Atom("(CN)", 0, 1)>>),
                     "Starts with specific China Post prefixes")>>),
      Rule("global.fedex", "FedEx", 6,
           <<Pattern("length", DigitsOnly(12, 12), "12 digits"),
             Pattern("length", DigitsOnly(15, 15), "15 digits")>>),
      Rule("global.dhl", "DHL", 5,
           <<Pattern("length", DigitsOnly(10, 11), "10-11 digits")>>),
      Rule("global.sagawa", "Sagawa Express", 4,
           <<Pattern("length", DigitsOnly(10, 12), "10-12 digits")>>),
      Rule("kr.cj", "CJ Logistics", 3, KoreanDomestic),
      Rule("kr.hanjin", "Hanjin", 3, KoreanDomestic),
      Rule("kr.epost", "Korea Post", 3, KoreanDomestic),
      Rule("kr.lotte", "Lotte", 3, KoreanDomestic),
      Rule("kr.kdexp", "KD Express", 3, KoreanDomestic),
      Rule("kr.cjlogistics", "CJ Logistics (Alternative)", 3,
           KoreanDomestic)>>

\* mutant: the registry is walked in registration order
sorted_unsorted(rules) == rules

\* mutant: the sort is ascending, rules of equal priority in registration
\* order
RECURSIVE sorted_ascending(_)
sorted_ascending(rules) ==
    IF rules = <<>> THEN <<>>
    ELSE LET front == sorted_ascending(SubSeq(rules, 1, Len(rules) - 1))
             rule == rules[Len(rules)]
             k == Cardinality({i \in 1..Len(front) :
                                  front[i].priority <= rule.priority})
         IN  SubSeq(front, 1, k) \o <<rule>>
                \o SubSeq(front, k + 1, Len(front))

\* mutant: the ascending sort reversed, which turns the registration order
\* of rules of equal priority round as well
RECURSIVE sorted_reversed(_)
sorted_reversed(rules) ==
    IF rules = <<>> THEN <<>>
    ELSE LET front == sorted_reversed(SubSeq(rules, 1, Len(rules) - 1))
             rule == rules[Len(rules)]
             k == Cardinality({i \in 1..Len(front) :
                                  front[i].priority > rule.priority})
         IN  SubSeq(front, 1, k) \o <<rule>>
                \o SubSeq(front, k + 1, Len(front))

\* sorted(CARRIER_PATTERNS, key=priority, reverse=True): the sort is stable,
\* so rules of equal priority keep their registration order.  Each rule, in
\* registration order, goes behind the rules of its priority or higher.
RECURSIVE sorted(_)
sorted(rules) ==
    IF rules = <<>> THEN <<>>
    ELSE LET front == sorted(SubSeq(rules, 1, Len(rules) - 1))
             rule == rules[Len(rules)]
             k == Cardinality({i \in 1..Len(front) :
                                  front[i].priority >= rule.priority})
         IN  SubSeq(front, 1, k) \o <<rule>>
                \o SubSeq(front, k + 1, Len(front))

\* the (rule, pattern) pairs in the order the two for loops visit them
\* (carrier_detector.py:222-223)
RECURSIVE Visits(_)
Visits(rules) ==
    IF rules = <<>> THEN <<>>
    ELSE [k \in 1..Len(Head(rules).patterns) |->
             [rule |-> Head(rules), pattern |-> Head(rules).patterns[k]]]
         \o Visits(Tail(rules))

\* the first visit from the i-th on whose pattern matches, 0 for none
RECURSIVE FirstMatch(_, _, _)
FirstMatch(visits, normalized, i) ==
    IF i > Len(visits) THEN 0
    ELSE IF re_match(visits[i].pattern.regex, normalized) THEN i
    ELSE FirstMatch(visits, normalized, i + 1)

\* mutant: the priority alone decides between high and medium
determine_confidence_by_priority(priority, pattern_type) ==
    IF priority >= 9 THEN "high"
    ELSE IF priority >= 5 \/ pattern_type = "prefix" THEN "medium"
    ELSE "low"

\* carrier_detector.py:247-267  _determine_confidence
determine_confidence(priority, pattern_type) ==
    IF priority >= 9 /\ pattern_type \in {"suffix", "prefix"} THEN "high"
    ELSE IF priority >= 5 \/ pattern_type = "prefix" THEN "medium"
    ELSE "low"

NoCarrier == "None"
NoPattern == "None"
NoError == "(no error key)"

TooShort ==
    [carrier |-> NoCarrier, confidence |-> "none",
     pattern_matched |-> NoPattern,
     error |-> "Tracking number too short (minimum 5 characters)"]

\* mutant: a result without a carrier always carries an error
NoMatchWithError ==
    [carrier |-> NoCarrier, confidence |-> "none",
     pattern_matched |-> NoPattern, error |-> "No carrier matched"]

\* carrier_detector.py:238-244
NoMatch ==
    [carrier |-> NoCarrier, confidence |-> "none",
     pattern_matched |-> NoPattern, error |-> NoError]

\* carrier_detector.py:225-236
Match(visit) ==
    [carrier |-> visit.rule.carrier,
     confidence |-> determine_confidence(visit.rule.priority,
                                         visit.pattern.type),
     pattern_matched |-> visit.pattern.description, error |-> NoError]

\* mutant: the length test comes after the patterns
detect_carrier_unvalidated(rules, tracking_number) ==
    LET normalized == normalize_tracking_number(tracking_number)
        visits == Visits(sorted(rules))
        hit == FirstMatch(visits, normalized, 1)
    IN  IF hit # 0
        THEN [result |-> Match(visits[hit]), tested |-> hit,
              normalized |-> normalized]
        ELSE [result |-> IF Len(normalized) < 5 THEN TooShort ELSE NoMatch,
              tested |-> Len(visits), normalized |-> normalized]

\* carrier_detector.py:190-244: what detect_carrier returns for the registry
\* given (result), with the normalized string it worked on and the number of
\* patterns it tested with re.match
detect_carrier(rules, tracking_number) ==
    LET normalized == normalize_tracking_number(tracking_number)
        visits == Visits(sorted(rules))
        hit == FirstMatch(visits, normalized, 1)
    IN  IF Len(normalized) < 5
        THEN [result |-> TooShort, tested |-> 0, normalized |-> normalized]
        ELSE IF hit # 0
        THEN [result |-> Match(visits[hit]), tested |-> hit,
              normalized |-> normalized]
        ELSE [result |-> NoMatch, tested |-> Len(visits),
              normalized |-> normalized]

\* mutant: a rule for a carrier is put in front of the registry
add_carrier_pattern_first(rules, rule) == <<rule>> \o rules

\* carrier_detector.py:298-322: CARRIER_PATTERNS after the call
add_carrier_pattern(rules, rule) == Append(rules, rule)

\* the rules registered at run time: one pattern each, a regex for digits
\* of any number ("^\d+$"), every pattern type, a priority below and one
\* above the built-in rules that match digits
NewCarriers == {"global.new", "kr.new"}
NewPriorities == {4, 9}
PatternTypes == {"suffix", "prefix", "length", "regex"}
AnyDigits == Anchored(<<AtLeast("\\d", 1)>>)
NewRules ==
    {Rule(c, "New carrier", p, <<Pattern(t, AnyDigits, "digits")>>) :
        c \in NewCarriers, p \in NewPriorities, t \in PatternTypes}

\* tracking numbers given to detect_carrier
Digits10 == <<"1", "2", "3", "4", "5", "6", "7", "8", "9", "0">>
EN387436585JP ==
    <<"E", "N", "3", "8", "7", "4", "3", "6", "5", "8", "5", "J", "P">>
UPS1Z == <<"1", "Z", "9", "9", "9", "A", "A", "1", "0", "1", "2", "3", "4",
           "5", "6", "7", "8", "4">>
Samples ==
    {None, <<>>, <<"1", "2", "3", "4">>, <<" ", "1", "-", "2", "3", "4", " ">>,
     <<"H", "E", "L", "L", "O">>,
     EN387436585JP, UPS1Z,
     <<" ">> \o upper(EN387436585JP) \o <<"\t">>,
     <<"e", "n", "3", "8", "7", "-", "4", "3", "6", " ", "5", "8", "5", "j",
       "p">>,
     <<"R", "B">> \o SubSeq(Digits10, 1, 9) \o <<"C", "N">>,
     SubSeq(Digits10, 1, 9),
     Digits10,
     Digits10 \o <<"1">>,
     Digits10 \o <<"1", "2">>,
     Digits10 \o <<"1", "2", "3">>,
     Digits10 \o <<"1", "2", "3", "4">>,
     Digits10 \o <<"1", "2", "3", "4", "5">>,
     Digits10 \o <<"1", "2", "\n", "-">>}

NoDetection == [op |-> "none"]

NoCall == [pc |-> "none"]

\* ------------------------------------------------------------------ history
\* The history variables are kept by the specification that needs them and
\* left alone by the others.
Called(op, hours) ==
    calls' = (IF Len(calls) = 2 THEN Tail(calls) ELSE calls)
                 \o <<[op |-> op, hours |-> hours, running |-> sched.running]>>

\* a change notification for package p is sent in this step
ChangeNoted(p) ==
    /\ last'.run = "job"
    /\ last'.tracking_number = p
    /\ \E i \in 1..Len(last'.notes) :
          last'.notes[i].kind \in {"status_changed", "delivered"}

\* the persisted status of package p goes from a set value to another
Changed(p) ==
    /\ store[p].life = "present"
    /\ store'[p].life = "present"
    /\ store[p].status # NoStatus
    /\ store'[p].status # store[p].status

\* unnotified[p]: a change of p's persisted status has not been notified
Observe ==
    unnotified' = [p \in Ids |->
                      IF ChangeNoted(p) THEN FALSE
                      ELSE IF Changed(p) THEN TRUE
                      ELSE unnotified[p]]

\* history: the tracking attempt of a request handler.  create_package
\* (routers/packages.py:50-67) and track_package (routers/packages.py:
\* 202-234) call the adapter once for one package; the record keeps which
\* handler it was, the package, and what the adapter call came to.
NoAttempt ==
    [op |-> "none", tracking_number |-> 0, adapter |-> "none",
     dbfail |-> FALSE]
Tried(op, tn, carrier, result, dbfail) ==
    attempt' = [op |-> op, tracking_number |-> tn,
                adapter |-> Adapter([carrier |-> carrier], result),
                dbfail |-> dbfail
                           /\ Adapter([carrier |-> carrier], result)
                                = "success"]
\* a step that is no tracking attempt of a handler
Untried == attempt' = NoAttempt /\ UNCHANGED <<calls, unnotified>>

NoHistory == UNCHANGED <<calls, unnotified, attempt>>

\* the carrier detector and the adapters' internals are no part of the
\* behaviours of the store, the runs and the scheduler
Apart == UNCHANGED <<registry, detection, call>>

\* ------------------------------------------------------------------ behaviours
\* The application as it runs: main.py:24-29 has started the scheduler with
\* the configured interval (default 1 hour) before the first request.
Started == [running |-> TRUE, pending |-> <<>>, jobs |-> <<Job(1)>>,
            waiting |-> FALSE]

Init ==
    /\ store = [p \in Ids |-> NoRow("unborn")]
    /\ job = IdleJob
    /\ req = IdleReq
    /\ sched = Started
    /\ report = [running |-> FALSE, jobs |-> <<>>]
    /\ calls = <<>>
    /\ last = NoLast
    /\ unnotified = [p \in Ids |-> FALSE]
    /\ attempt = NoAttempt
    /\ registry = CARRIER_PATTERNS
    /\ detection = NoDetection
    /\ call = NoCall

Next ==
    \/ JobStart /\ NoHistory /\ Apart
    \/ \E result \in Results, dbfail \in BOOLEAN :
          JobIterate(result, dbfail) /\ NoHistory /\ Apart
    \/ JobReturn /\ NoHistory /\ Apart
    \/ ReqStart /\ NoHistory /\ Apart
    \/ \E result \in Results, dbfail \in BOOLEAN :
          ReqIterate(result, dbfail) /\ NoHistory /\ Apart
    \/ ReqReturn /\ NoHistory /\ Apart
    \/ \E c \in Carriers, n \in BOOLEAN, result \in Results,
          dbfail \in BOOLEAN :
          create_package(c, n, result, dbfail) /\ NoHistory /\ Apart
    \/ \E p \in Ids, a \in BOOLEAN, n \in BOOLEAN :
          update_package(p, a, n) /\ NoHistory /\ Apart
    \/ \E p \in Ids : delete_package(p) /\ NoHistory /\ Apart
    \/ \E p \in Ids, result \in Results, dbfail \in BOOLEAN :
          track_package(p, result, dbfail) /\ NoHistory /\ Apart

Spec == Init /\ [][Next]_vars

\* The scheduler object from its creation at import (scheduler.py:22), under
\* any sequence of start, stop and status calls, with the job firing.
InitSched ==
    /\ store = [p \in Ids |-> NoRow("unborn")]
    /\ job = IdleJob
    /\ req = IdleReq
    /\ sched = [running |-> FALSE, pending |-> <<>>, jobs |-> <<>>,
                waiting |-> FALSE]
    /\ report = [running |-> FALSE, jobs |-> <<>>]
    /\ calls = <<>>
    /\ last = NoLast
    /\ unnotified = [p \in Ids |-> FALSE]
    /\ attempt = NoAttempt
    /\ registry = CARRIER_PATTERNS
    /\ detection = NoDetection
    /\ call = NoCall

NextSched ==
    \/ \E h \in Hours :
          start_scheduler(h) /\ Called("start", h)
          /\ UNCHANGED <<unnotified, attempt>> /\ Apart
    \/ stop_scheduler /\ Called("stop", 0)
          /\ UNCHANGED <<unnotified, attempt>> /\ Apart
    \/ ShutdownReturn /\ NoHistory /\ Apart
    \/ scheduler_status /\ Called("status", 0)
          /\ UNCHANGED <<unnotified, attempt>> /\ Apart
    \/ JobStart /\ NoHistory /\ Apart
    \/ JobReturn /\ NoHistory /\ Apart

SchedSpec == InitSched /\ [][NextSched]_vars

\* The refresh runs over a fixed set of registered packages: scheduled runs,
\* on-demand runs and single-package track calls in any interleaving.
InitRows ==
    {Row("kr.cj", st, TRUE, n, st) : st \in Statuses \cup {NoStatus},
                                     n \in BOOLEAN}
    \cup {Row(c, NoStatus, TRUE, n, NoStatus) :
             c \in Carriers \ {"kr.cj"}, n \in BOOLEAN}

InitRuns ==
    /\ store \in [Ids -> InitRows]
    /\ job = IdleJob
    /\ req = IdleReq
    /\ sched = Started
    /\ report = [running |-> FALSE, jobs |-> <<>>]
    /\ calls = <<>>
    /\ last = NoLast
    /\ unnotified = [p \in Ids |-> FALSE]
    /\ attempt = NoAttempt
    /\ registry = CARRIER_PATTERNS
    /\ detection = NoDetection
    /\ call = NoCall

NextRuns ==
    \/ JobStart /\ Observe /\ UNCHANGED <<calls, attempt>> /\ Apart
    \/ \E result \in Results, dbfail \in BOOLEAN :
          JobIterate(result, dbfail) /\ Observe
          /\ UNCHANGED <<calls, attempt>> /\ Apart
    \/ JobReturn /\ Observe /\ UNCHANGED <<calls, attempt>> /\ Apart
    \/ ReqStart /\ Observe /\ UNCHANGED <<calls, attempt>> /\ Apart
    \/ \E result \in Results, dbfail \in BOOLEAN :
          ReqIterate(result, dbfail) /\ Observe
          /\ UNCHANGED <<calls, attempt>> /\ Apart
    \/ ReqReturn /\ Observe /\ UNCHANGED <<calls, attempt>> /\ Apart
    \/ \E p \in Ids, result \in Results, dbfail \in BOOLEAN :
          track_package(p, result, dbfail) /\ Observe
          /\ UNCHANGED <<calls, attempt>> /\ Apart

RunsSpec == InitRuns /\ [][NextRuns]_vars

\* The scheduled loop alone over a table of domestic packages, with the
\* wider vocabulary of status texts: the change test and the choice of the
\* notification on every pair of old and fetched status.
AllStatuses == Statuses \cup MoreStatuses

InitChange ==
    /\ store \in [Ids -> {Row("kr.cj", st, TRUE, n, st) :
                             st \in AllStatuses \cup {NoStatus},
                             n \in BOOLEAN}]
    /\ job = IdleJob
    /\ req = IdleReq
    /\ sched = Started
    /\ report = [running |-> FALSE, jobs |-> <<>>]
    /\ calls = <<>>
    /\ last = NoLast
    /\ unnotified = [p \in Ids |-> FALSE]
    /\ attempt = NoAttempt
    /\ registry = CARRIER_PATTERNS
    /\ detection = NoDetection
    /\ call = NoCall

NextChange ==
    \/ JobStart /\ NoHistory /\ Apart
    \/ \E result \in {Ok(st) : st \in AllStatuses}
                        \cup {Err("tracker unreachable")},
          dbfail \in BOOLEAN :
          JobIterate(result, dbfail) /\ NoHistory /\ Apart
    \/ JobReturn /\ NoHistory /\ Apart

ChangeSpec == InitChange /\ [][NextChange]_vars

\* The scheduler stopped and started again while its job runs over a table
\* of packages.
NextStop ==
    \/ \E h \in Hours :
          start_scheduler(h) /\ Called("start", h)
          /\ UNCHANGED <<unnotified, attempt>> /\ Apart
    \/ stop_scheduler /\ Called("stop", 0)
          /\ UNCHANGED <<unnotified, attempt>> /\ Apart
    \/ ShutdownReturn /\ NoHistory /\ Apart
    \/ JobStart /\ NoHistory /\ Apart
    \/ \E result \in Results, dbfail \in BOOLEAN :
          JobIterate(result, dbfail) /\ NoHistory /\ Apart
    \/ JobReturn /\ NoHistory /\ Apart

StopSpec == InitRuns /\ [][NextStop]_vars

\* The three places that track one package: the two loops, the initial
\* tracking of create_package and track_package, over a table that holds
\* packages already and has room for new ones, with the attempt of a
\* handler recorded.
InitAttempt ==
    /\ store \in [Ids -> InitRows \cup {NoRow("unborn")}]
    /\ job = IdleJob
    /\ req = IdleReq
    /\ sched = Started
    /\ report = [running |-> FALSE, jobs |-> <<>>]
    /\ calls = <<>>
    /\ last = NoLast
    /\ unnotified = [p \in Ids |-> FALSE]
    /\ attempt = NoAttempt
    /\ registry = CARRIER_PATTERNS
    /\ detection = NoDetection
    /\ call = NoCall

NextAttempt ==
    \/ JobStart /\ Untried /\ Apart
    \/ \E result \in Results, dbfail \in BOOLEAN :
          JobIterate(result, dbfail) /\ Untried /\ Apart
    \/ JobReturn /\ Untried /\ Apart
    \/ ReqStart /\ Untried /\ Apart
    \/ \E result \in Results, dbfail \in BOOLEAN :
          ReqIterate(result, dbfail) /\ Untried /\ Apart
    \/ ReqReturn /\ Untried /\ Apart
    \/ \E c \in Carriers, n \in BOOLEAN, result \in Results,
          dbfail \in BOOLEAN :
          /\ create_package(c, n, result, dbfail)
          /\ Tried("create", NextId, c, result, dbfail)
          /\ UNCHANGED <<calls, unnotified>> /\ Apart
    \/ \E p \in Ids, result \in Results, dbfail \in BOOLEAN :
          /\ track_package(p, result, dbfail)
          /\ Tried("track", p, store[p].carrier, result, dbfail)
          /\ UNCHANGED <<calls, unnotified>> /\ Apart

AttemptSpec == InitAttempt /\ [][NextAttempt]_vars

\* ------------------------------------------------------------------ detector calls
\* a call of add_carrier_pattern
AddCarrierPattern(rule) ==
    /\ Len(registry) < Len(CARRIER_PATTERNS) + MaxAdded
    /\ registry' = add_carrier_pattern(registry, rule)
    /\ detection' = [op |-> "add", rule |-> rule]
    /\ UNCHANGED <<store, job, req, sched, report, calls, last,
                   unnotified, attempt, call>>

\* a call of detect_carrier
DetectCarrier(tracking_number) ==
    /\ detection' =
          [op |-> "detect", tracking_number |-> tracking_number,
           out |-> detect_carrier(registry, tracking_number)]
    /\ UNCHANGED <<store, job, req, sched, report, calls, last,
                   unnotified, attempt, registry, call>>

InitDetect ==
    /\ store = [p \in Ids |-> NoRow("unborn")]
    /\ job = IdleJob
    /\ req = IdleReq
    /\ sched = Started
    /\ report = [running |-> FALSE, jobs |-> <<>>]
    /\ calls = <<>>
    /\ last = NoLast
    /\ unnotified = [p \in Ids |-> FALSE]
    /\ attempt = NoAttempt
    /\ registry = CARRIER_PATTERNS
    /\ detection = NoDetection
    /\ call = NoCall

NextDetect ==
    \/ \E rule \in NewRules : AddCarrierPattern(rule)
    \/ \E tracking_number \in Samples : DetectCarrier(tracking_number)

DetectSpec == InitDetect /\ [][NextDetect]_vars

\* Normalization on its own: every string of the alphabet up to MaxLen
\* characters is normalized, and the result normalized again.
Alphabet == {"a", "1", " ", "-", "\t"}

RECURSIVE StrsUpTo(_)
StrsUpTo(n) ==
    IF n = 0 THEN {<<>>}
    ELSE StrsUpTo(n - 1)
            \cup {Append(s, c) : s \in StrsUpTo(n - 1), c \in Alphabet}

Normalize(tracking_number) ==
    /\ detection.op \in {"none", "normalize"}
    /\ detection' =
          [op |-> "normalize", tracking_number |-> tracking_number,
           normalized |-> normalize_tracking_number(tracking_number),
           again |-> FALSE]
    /\ UNCHANGED <<store, job, req, sched, report, calls, last,
                   unnotified, attempt, registry, call>>

\* the normalized string is given to normalize_tracking_number again
NormalizeAgain ==
    /\ detection.op = "normalize"
    /\ detection' =
          [op |-> "normalize", tracking_number |-> detection.normalized,
           normalized |-> normalize_tracking_number(detection.normalized),
           again |-> TRUE]
    /\ UNCHANGED <<store, job, req, sched, report, calls, last,
                   unnotified, attempt, registry, call>>

NextNormalize ==
    \/ \E tracking_number \in StrsUpTo(MaxLen) \cup {None} :
          Normalize(tracking_number)
    \/ NormalizeAgain

NormalizeSpec == InitDetect /\ [][NextNormalize]_vars

\* ------------------------------------------------------------------ claims
TrackingNumbers(errors) ==
    [i \in 1..Len(errors) |-> errors[i].tracking_number]

NotesFor(tn) ==
    {i \in 1..Len(job.sent) : job.sent[i].tracking_number = tn}

\* C1: when a refresh run ends, scheduled or on-demand, its tallies are
\* failed = K and succeeded = N - K for the K packages of its N that
\* failed, and the on-demand error list names exactly the failed packages
\* in order.
C1_RunTallies ==
    /\ job.pc = "done" =>
          /\ job.error_count = Len(job.failed)
          /\ job.success_count = job.total - Len(job.failed)
    /\ req.pc = "done" =>
          /\ req.results.failed = Len(req.failed)
          /\ req.results.success = req.results.total - Len(req.failed)
          /\ TrackingNumbers(req.results.errors) = req.failed

\* C2: an iteration that raises (the adapter call or the write-back) is
\* counted as failed and the loop goes on: a run stops only when it has
\* visited every package it loaded, and an iteration is counted as a
\* success exactly when its own fetch and write succeeded, whatever
\* happened to the packages before it.
C2_FailureContained ==
    /\ job.pc # "idle" =>
          job.success_count + Len(job.failed) + Len(job.packages) = job.total
    /\ job.pc # "loop" => job.packages = <<>>
    /\ req.pc # "idle" =>
          req.results.success + Len(req.failed) + Len(req.packages)
             = req.results.total
    /\ req.pc # "loop" => req.packages = <<>>
    /\ last.run # "none" =>
          /\ (last.adapter = "exception" \/ last.dbfail)
                => last.counted \in {"error", "failed"}
          /\ last.counted = "success"
                <=> (last.adapter = "success" /\ ~last.dbfail)

\* C3: a successful fetch of the status the package already had sends no
\* notification.
C3_NoChangeNoNote ==
    (last.run \in {"job", "req"} /\ last.adapter = "success"
        /\ (last.run = "job" => last.fetched = last.old_status))
    => (last.notes = <<>> /\ (last.run = "job" => NotesFor(last.tracking_number) = {}))

\* C3 witness: the scheduled loop fetched the status a package with
\* notifications enabled already had.
C3_Witness ==
    /\ last.run = "job"
    /\ last.adapter = "success"
    /\ last.old_status \in Statuses
    /\ last.fetched = last.old_status
    /\ last.notify_enabled
    /\ ~last.dbfail

\* C4: after an iteration whose adapter call succeeded and whose write-back
\* did not raise, the package's persisted status is the fetched status.
C4_FetchedStatusPersisted ==
    (last.run \in {"job", "req"} /\ last.adapter = "success" /\ ~last.dbfail)
    => /\ store[last.tracking_number].life = "present"
       /\ store[last.tracking_number].status = last.fetched

\* C5: within one scheduled run at most one notification is sent for a
\* package (so never two of different kinds), and an on-demand run sends
\* none.
C5_AtMostOneNote ==
    /\ \A tn \in Ids : Cardinality(NotesFor(tn)) <= 1
    /\ Len(last.notes) <= 1

\* C5 witness: a scheduled run that has sent a notification for each of
\* two packages, of different kinds.
C5_Witness ==
    /\ Len(job.sent) = 2
    /\ job.sent[1].kind # job.sent[2].kind
    /\ job.sent[1].tracking_number # job.sent[2].tracking_number

\* C6: the scheduled run and the on-demand run are never in flight together.
C6_OneRunInFlight == ~(job.pc # "idle" /\ req.pc # "idle")

\* C7: every change notification answers a change of the package's persisted
\* status that no earlier notification has answered (made by the notifying
\* write itself or by an earlier write of any run or track call).
C7_TransitionNotifiedOnce ==
    [][\A p \in Ids : ChangeNoted(p) => (Changed(p) \/ unnotified[p])]_vars

\* C7 witness: the scheduled run sends a change notification while an
\* on-demand run is in flight.
C7_Witness ==
    /\ last.run = "job"
    /\ \E i \in 1..Len(last.notes) :
          last.notes[i].kind \in {"status_changed", "delivered"}
    /\ req.pc = "loop"

\* C8: at most one job is installed, pending or reported, whatever start
\* and stop calls were made.
C8_OneJob ==
    /\ Len(sched.jobs) <= 1
    /\ Len(sched.pending) <= 1
    /\ Len(report.jobs) <= 1
    /\ \A i \in 1..Len(sched.jobs) : sched.jobs[i].id = "refresh_packages"

\* C8 witness: start_scheduler was called twice in a row and one job is
\* installed.
C8_Witness ==
    /\ Len(calls) = 2
    /\ calls[1].op = "start"
    /\ calls[2].op = "start"
    /\ Len(sched.jobs) = 1

\* C9: a status call that follows a stop call reports running = false and
\* no job.
C9_StoppedStatus ==
    (Len(calls) = 2 /\ calls[1].op = "stop" /\ calls[2].op = "status")
    => (~report.running /\ report.jobs = <<>>)

\* C9 witness: stop was called on a running scheduler and status after it.
C9_Witness ==
    /\ Len(calls) = 2
    /\ calls[1].op = "stop"
    /\ calls[1].running
    /\ calls[2].op = "status"

\* C10 as claimed: after start_scheduler(h) the installed job fires every h
\* hours.
C10_LastStartWins ==
    (calls # <<>> /\ calls[Len(calls)].op = "start")
    => sched.jobs = <<Job(calls[Len(calls)].hours)>>

\* C10 amended: start_scheduler on a running scheduler changes nothing: the
\* scheduler keeps running and the installed job keeps its interval.
C10_StartWhileRunningNoOp ==
    [][(calls' # calls /\ calls'[Len(calls')].op = "start" /\ sched.running)
          => sched' = sched]_vars

\* C10 witness: start_scheduler(1) on a stopped scheduler, then
\* start_scheduler(2), and the job still fires every hour.
C10_Witness ==
    /\ calls = <<[op |-> "start", hours |-> 1, running |-> FALSE],
                 [op |-> "start", hours |-> 2, running |-> TRUE]>>
    /\ sched.jobs = <<Job(1)>>
    /\ sched.running


\* ------------------------------------------------------------------ detector claims

\* the positions in a registry of the rules with a pattern that matches s
MatchingRules(rules, s) ==
    {i \in 1..Len(rules) :
        \E k \in 1..Len(rules[i].patterns) :
            re_match(rules[i].patterns[k].regex, s)}

\* of the matching rules the one with the highest priority and, among those
\* of that priority, the one registered first
Best(rules, s) ==
    CHOOSE i \in MatchingRules(rules, s) :
        \A j \in MatchingRules(rules, s) :
            \/ rules[j].priority < rules[i].priority
            \/ rules[j].priority = rules[i].priority /\ i <= j

\* C11 as stated: whatever the registry holds, when two or more rules match
\* the normalized string, detect_carrier returns the carrier of the matching
\* rule of highest priority, the first registered among equals.
C11_BestRuleWins ==
    detection.op = "detect"
        /\ Cardinality(MatchingRules(registry, detection.out.normalized)) >= 2
    => detection.out.result.carrier
           = registry[Best(registry, detection.out.normalized)].carrier

\* C11 amended: the same for normalized strings of five characters or more;
\* a shorter string is refused before any rule is consulted.
C11_BestRuleWinsFromFive ==
    detection.op = "detect"
        /\ Len(detection.out.normalized) >= 5
        /\ Cardinality(MatchingRules(registry, detection.out.normalized)) >= 2
    => detection.out.result.carrier
           = registry[Best(registry, detection.out.normalized)].carrier

\* a call whose winner was registered after a matching rule of lower
\* priority and before a matching rule of its own priority for another
\* carrier
C11_Witness ==
    /\ detection.op = "detect"
    /\ Len(detection.out.normalized) >= 5
    /\ LET s == detection.out.normalized
           matching == MatchingRules(registry, s)
       IN  /\ matching # {}
           /\ detection.out.result.carrier = registry[Best(registry, s)].carrier
           /\ \E j \in matching :
                 /\ j < Best(registry, s)
                 /\ registry[j].priority < registry[Best(registry, s)].priority
           /\ \E j \in matching :
                 /\ j > Best(registry, s)
                 /\ registry[j].priority = registry[Best(registry, s)].priority
                 /\ registry[j].carrier # registry[Best(registry, s)].carrier


\* C12: when the normalized input has fewer than five characters (empty and
\* null input included) detect_carrier returns no carrier, confidence none
\* and the validation error, and tests no pattern, whatever the registry
\* holds.
C12_TooShortRejected ==
    detection.op = "detect" /\ Len(detection.out.normalized) < 5
    => /\ detection.out.result.carrier = NoCarrier
       /\ detection.out.result.confidence = "none"
       /\ detection.out.result.error
              = "Tracking number too short (minimum 5 characters)"
       /\ detection.out.tested = 0

\* a short input that an appended rule matches, refused all the same
C12_Witness ==
    /\ detection.op = "detect"
    /\ detection.tracking_number # None
    /\ Len(detection.out.normalized) \in 1..4
    /\ MatchingRules(registry, detection.out.normalized) # {}
    /\ detection.out.result.carrier = NoCarrier
    /\ detection.out.tested = 0

\* the first pattern of a rule that matches s
WinningPattern(rule, s) ==
    rule.patterns[CHOOSE k \in 1..Len(rule.patterns) :
                     /\ re_match(rule.patterns[k].regex, s)
                     /\ \A h \in 1..(k - 1) :
                           ~re_match(rule.patterns[h].regex, s)]

\* C13: the confidence of a match depends only on the priority of the
\* winning rule and the kind of the winning pattern: high iff the priority
\* is 9 or more and the kind is prefix or suffix, otherwise medium iff the
\* priority is 5 or more or the kind is prefix, otherwise low.
C13_ConfidenceFromPriorityAndKind ==
    detection.op = "detect" /\ detection.out.result.carrier # NoCarrier
    => LET s == detection.out.normalized
           rule == registry[Best(registry, s)]
           kind == WinningPattern(rule, s).type
           high == rule.priority >= 9 /\ kind \in {"prefix", "suffix"}
           medium == ~high /\ (rule.priority >= 5 \/ kind = "prefix")
       IN  /\ detection.out.result.confidence \in {"high", "medium", "low"}
           /\ detection.out.result.confidence = "high" <=> high
           /\ detection.out.result.confidence = "medium" <=> medium

\* a suffix pattern of priority below 5 wins and the confidence is low
C13_Witness ==
    /\ detection.op = "detect"
    /\ detection.out.result.carrier # NoCarrier
    /\ LET s == detection.out.normalized
           rule == registry[Best(registry, s)]
       IN  /\ rule.priority < 5
           /\ WinningPattern(rule, s).type = "suffix"
           /\ detection.out.result.confidence = "low"

\* C15: with the built-in registry "EN387436585JP" is Japan Post with high
\* confidence, "1Z999AA10123456784" is UPS with high confidence, and the
\* twelve digits "123456789012" are FedEx (the length rule of priority 6)
\* with medium confidence.
C15_BuiltInExamples ==
    detection.op = "detect" /\ registry = CARRIER_PATTERNS
    => /\ detection.tracking_number = EN387436585JP
          => /\ detection.out.result.carrier = "global.jppost"
             /\ detection.out.result.confidence = "high"
       /\ detection.tracking_number = UPS1Z
          => /\ detection.out.result.carrier = "global.ups"
             /\ detection.out.result.confidence = "high"
       /\ detection.tracking_number = Digits10 \o <<"1", "2">>
          => /\ detection.out.result.carrier = "global.fedex"
             /\ detection.out.result.confidence = "medium"

\* the twelve digits given to the built-in registry, where seven other
\* rules of lower priority match as well
C15_Witness ==
    /\ detection.op = "detect"
    /\ registry = CARRIER_PATTERNS
    /\ detection.tracking_number = Digits10 \o <<"1", "2">>
    /\ detection.out.result.carrier = "global.fedex"
    /\ Cardinality(MatchingRules(registry, detection.out.normalized)) = 8

\* C16: when the normalized input has five characters or more and no rule
\* matches, detect_carrier returns no carrier and confidence none without an
\* error field; a result without a carrier has the error field exactly when
\* the input was too short.
C16_NoMatchHasNoError ==
    detection.op = "detect"
    => /\ Len(detection.out.normalized) >= 5
            /\ MatchingRules(registry, detection.out.normalized) = {}
          => /\ detection.out.result.carrier = NoCarrier
             /\ detection.out.result.confidence = "none"
             /\ detection.out.result.error = NoError
       /\ detection.out.result.carrier = NoCarrier
          => (detection.out.result.error # NoError
                 <=> Len(detection.out.normalized) < 5)

\* digits that no built-in rule takes, given to a registry with an appended
\* rule that does not match them either: every pattern was tested
C16_Witness ==
    /\ detection.op = "detect"
    /\ Len(detection.out.normalized) >= 5
    /\ Len(registry) > Len(CARRIER_PATTERNS)
    /\ MatchingRules(registry, detection.out.normalized) = {}
    /\ detection.out.result = NoMatch
    /\ detection.out.tested = Len(Visits(registry))


\* C14: normalization is idempotent: normalizing the result of
\* normalize_tracking_number again gives the same string, for every input,
\* with hyphens, spaces and tabs in any position.
C14_Idempotent ==
    detection.op = "normalize" /\ detection.again
    => detection.normalized = detection.tracking_number

C17_UnknownPrefixIsFailure ==
    last.adapter = "not_contacted"
    => /\ last.counted \in {"error", "failed"}
       /\ last.notify_enabled
          => \E i \in 1..Len(last.notes) :
                /\ last.notes[i].kind = "error"
                /\ last.notes[i].tracking_number = last.tracking_number


\* C19: a refresh run never creates or deletes a package and never changes
\* a package's carrier, is_active or notify_enabled; it writes status and
\* tracking_data only, and only for the package of the iteration and when
\* the adapter call of that iteration succeeded.
C19_RunWritesStatusOnly ==
    [][job' # job \/ req' # req
       => \A p \in Ids :
             /\ store'[p].life = store[p].life
             /\ store'[p].carrier = store[p].carrier
             /\ store'[p].is_active = store[p].is_active
             /\ store'[p].notify_enabled = store[p].notify_enabled
             /\ (\/ store'[p].status # store[p].status
                 \/ store'[p].tracking_data # store[p].tracking_data)
                => /\ last'.run \in {"job", "req"}
                   /\ last'.tracking_number = p
                   /\ last'.adapter = "success"
      ]_vars

\* a scheduled iteration has written the fetched status of its package
\* while the other package, present as well, kept its own
C19_Witness ==
    /\ last.run = "job"
    /\ last.adapter = "success"
    /\ last.old_status # last.fetched
    /\ store[last.tracking_number].status = last.fetched
    /\ \E p \in Ids :
          /\ p # last.tracking_number
          /\ Present(p)
          /\ store[p].status # last.fetched


\* ------------------------------------------------------------------ adapter calls
\* The two adapter functions as a caller that waits for their value sees
\* them.  track_kr has no await and is one step.  track_global runs in four:
\* the dispatch on the carrier id, _init_browser, the page operations of the
\* per-carrier method, and _close_browser in the finally clause.

\* the dictionary an adapter returns
Outcome(success, carrier, tracking_number, status, error) ==
    [success |-> success, carrier |-> carrier,
     tracking_number |-> tracking_number, status |-> status, error |-> error]

\* what the delivery-tracker service does with the POST of track_kr
KrBackend ==
    {"tracked", "errors", "timeout", "refused", "http_500", "not_json",
     "data_null", "empty_object"}

\* the backend behaviours that are failures of the backend
KrFailures ==
    {"timeout", "refused", "http_500", "not_json", "data_null",
     "empty_object"}

\* kr_adapter.py:74-119
track_kr(carrier, tracking_number, backend, st) ==
    CASE backend = "tracked" ->
            Outcome(TRUE, carrier, tracking_number, st, "")
      [] backend = "errors" ->
            Outcome(FALSE, carrier, tracking_number, NoStatus,
                    "errors[0].message")
      [] backend \in {"timeout", "refused", "http_500"} ->
            Outcome(FALSE, carrier, tracking_number, NoStatus,
                    "Failed to connect to tracker service")
      [] backend = "not_json" ->
            Outcome(FALSE, carrier, tracking_number, NoStatus,
                    "Failed to connect to tracker service")
      [] backend = "data_null" ->
            Outcome(FALSE, carrier, tracking_number, NoStatus,
                    "Unexpected error")
      [] backend = "empty_object" ->
            Outcome(TRUE, carrier, tracking_number, "Unknown", "")

\* the carrier ids given to track_global
GlobalCarriers ==
    {"global.ups", "global.fedex", "global.dhl", "global.chinapost",
     "global.jppost", "global.sagawa", "global.other"}

\* the carriers whose method opens a page
Scraped ==
    {"global.ups", "global.chinapost", "global.jppost", "global.sagawa"}

\* global_scraper.py:74-106, 370-376: the results made without a browser
Unscraped(carrier, tracking_number) ==
    CASE carrier = "global.fedex" ->
            Outcome(FALSE, carrier, tracking_number, NoStatus,
                    "FedEx scraper not yet implemented")
      [] carrier = "global.dhl" ->
            Outcome(FALSE, carrier, tracking_number, NoStatus,
                    "DHL scraper not yet implemented")
      [] OTHER ->
            Outcome(FALSE, carrier, tracking_number, NoStatus,
                    "Unsupported carrier")

\* what the carrier's site does once the browser runs
Pages == {"loaded", "timeout", "no_selectors"}

\* the return value of a per-carrier method after its page operations:
\* an exception of page.goto is caught by the method's handler; an
\* exception of the selectors is caught by the inner handler, which keeps
\* success True
Scraped_result(carrier, tracking_number, page, st) ==
    CASE page = "timeout" ->
            Outcome(FALSE, carrier, tracking_number, NoStatus, "Timeout")
      [] page = "loaded" /\ carrier = "global.ups" ->
            Outcome(TRUE, carrier, tracking_number,
                    "Scraping not yet implemented", "")
      [] page = "no_selectors" /\ carrier = "global.ups" ->
            Outcome(TRUE, carrier, tracking_number,
                    "Scraping not yet implemented", "")
      [] page = "loaded" /\ carrier # "global.ups" ->
            Outcome(TRUE, carrier, tracking_number, st, "")
      [] page = "no_selectors" /\ carrier = "global.sagawa" ->
            Outcome(TRUE, carrier, tracking_number,
                    "Error parsing results", "")
      [] page = "no_selectors"
            /\ carrier \in {"global.chinapost", "global.jppost"} ->
            Outcome(TRUE, carrier, tracking_number, "Unknown", "")

NoOutcome == Outcome(FALSE, "", 0, NoStatus, "")

Over == call.pc \in {"none", "returned", "raised"}

\* result = track_kr(carrier, tracking_number)
TrackKr(carrier, tracking_number, backend, st) ==
    /\ Over
    /\ call' = [pc |-> "returned", fn |-> "track_kr", browser |-> FALSE,
                failure |-> IF backend \in KrFailures THEN backend
                            ELSE "none",
                result |-> track_kr(carrier, tracking_number, backend, st)]
    /\ UNCHANGED <<store, job, req, sched, report, calls, last,
                   unnotified, attempt, registry, detection>>

\* global_scraper.py:355-376: scraper = GlobalScraper() and the dispatch on
\* the carrier id; fedex, dhl and unsupported ids have their result at once
TrackGlobal(carrier, tracking_number) ==
    /\ Over
    /\ call' = IF carrier \in Scraped
               THEN [pc |-> "track", fn |-> "track_global",
                     browser |-> FALSE, failure |-> "none",
                     result |-> Outcome(FALSE, carrier, tracking_number,
                                        NoStatus, "")]
               ELSE [pc |-> "finally", fn |-> "track_global",
                     browser |-> FALSE, failure |-> "none",
                     result |-> Unscraped(carrier, tracking_number)]
    /\ UNCHANGED <<store, job, req, sched, report, calls, last,
                   unnotified, attempt, registry, detection>>

\* global_scraper.py:18-22 as called first in the method's try block: the
\* browser is launched, or the launch raises and the method's handler
\* returns the failure
InitBrowser(launched) ==
    /\ call.pc = "track"
    /\ call' = IF launched
               THEN [call EXCEPT !.pc = "page", !.browser = TRUE]
               ELSE [call EXCEPT
                        !.pc = "finally", !.failure = "launch",
                        !.result = Outcome(FALSE, call.result.carrier,
                                           call.result.tracking_number,
                                           NoStatus, "launch failed")]
    /\ UNCHANGED <<store, job, req, sched, report, calls, last,
                   unnotified, attempt, registry, detection>>

\* the page operations of track_ups, track_chinapost, track_jppost and
\* track_sagawa up to their return (track_ups waits for no selector)
Scrape(page, st) ==
    /\ call.pc = "page"
    /\ call' = [call EXCEPT
                  !.pc = "finally",
                  !.failure = IF page = "loaded"
                                 \/ (page = "no_selectors"
                                       /\ call.result.carrier = "global.ups")
                              THEN "none" ELSE page,
                  !.result = Scraped_result(call.result.carrier,
                                            call.result.tracking_number,
                                            page, st)]
    /\ UNCHANGED <<store, job, req, sched, report, calls, last,
                   unnotified, attempt, registry, detection>>

\* global_scraper.py:377-378 with 24-28: the finally clause awaits
\* _close_browser; with a browser open, browser.close() either returns, and
\* track_global returns the method's result, or raises, and the exception
\* leaves track_global in place of the result
CloseBrowser(closed) ==
    /\ call.pc = "finally"
    /\ call' = IF call.browser /\ ~closed
               THEN [call EXCEPT !.pc = "raised", !.failure = "close",
                                 !.result = NoOutcome]
               ELSE [call EXCEPT !.pc = "returned", !.browser = FALSE]
    /\ UNCHANGED <<store, job, req, sched, report, calls, last,
                   unnotified, attempt, registry, detection>>

NextAdapter ==
    \/ \E carrier \in {"kr.cj", "kr.epost"}, tracking_number \in Ids,
          backend \in KrBackend, st \in Statuses :
          TrackKr(carrier, tracking_number, backend, st)
    \/ \E carrier \in GlobalCarriers, tracking_number \in Ids :
          TrackGlobal(carrier, tracking_number)
    \/ \E launched \in BOOLEAN : InitBrowser(launched)
    \/ \E page \in Pages, st \in Statuses : Scrape(page, st)
    \/ \E closed \in BOOLEAN : CloseBrowser(closed)

AdapterSpec == InitDetect /\ [][NextAdapter]_vars

\* ------------------------------------------------------------------ adapter claims

\* C18: every adapter call, whatever the backend does (timeout, transport
\* failure, malformed response, failure while the browser is closed), ends
\* by returning an outcome with success true or false and never by an
\* exception, and a failure of the backend is returned as success = false
\* with an error message.
C18_AdapterNeverRaises ==
    /\ call.pc # "raised"
    /\ call.pc = "returned"
       => /\ call.result.success \in BOOLEAN
          /\ call.failure # "none"
             => ~call.result.success /\ call.result.error # ""


\* ------------------------------------------------------------------ notification claims

C22_FailureNotifiedIffEnabled ==
    last.run = "job"
        /\ (last.adapter \in {"failure", "exception", "not_contacted"}
               \/ last.dbfail)
    => (last.notify_enabled
           <=> \E i \in 1..Len(last.notes) :
                  /\ last.notes[i].kind = "error"
                  /\ last.notes[i].tracking_number = last.tracking_number)


\* the status texts that contain "delivered" in any case or the Korean term
DeliveryTexts ==
    {"Delivered", "DELIVERED", "Package delivered to front door",
     "\\ubc30\\ub2ec\\uc644\\ub8cc"}

Numbers(packages) ==
    [i \in 1..Len(packages) |-> packages[i].tracking_number]

\* the packages active in the table, in table order, without repetition
ActiveNow(numbers) ==
    /\ \A p \in Ids :
          (Present(p) /\ store[p].is_active)
             <=> \E i \in 1..Len(numbers) : numbers[i] = p
    /\ \A i, j \in 1..Len(numbers) : i < j => numbers[i] < numbers[j]

\* C24: a refresh run is one full pass over the packages that are active
\* when it starts: it loads exactly those, in the order of the table, each
\* iteration processes the first package not yet processed, and the run
\* ends only when none is left.
C24_FullPass ==
    [][/\ job.pc = "idle" /\ job'.pc # "idle"
          => ActiveNow(Numbers(job'.packages))
       /\ req.pc = "idle" /\ req'.pc # "idle"
          => ActiveNow(Numbers(req'.packages))
       /\ last'.run = "job"
          => /\ last'.tracking_number = Head(job.packages).tracking_number
             /\ job'.packages = Tail(job.packages)
       /\ last'.run = "req"
          => /\ last'.tracking_number = Head(req.packages).tracking_number
             /\ req'.packages = Tail(req.packages)
       /\ job.pc # "idle" /\ job'.pc = "idle" => job.packages = <<>>
       /\ req.pc # "idle" /\ req'.pc = "idle" => req.packages = <<>>
      ]_vars


C26_GlobalLikeDomestic ==
    [][/\ last'.run = "job" /\ StartsWithGlobal(Head(job.packages).carrier)
          => /\ last'.adapter \in {"success", "failure"}
             /\ last'.adapter = "success" /\ ~last'.dbfail
                   /\ Present(last'.tracking_number)
                => /\ last'.counted = "success"
                   /\ store'[last'.tracking_number].status = last'.fetched
       /\ last'.run = "req" /\ StartsWithGlobal(Head(req.packages).carrier)
          => /\ last'.adapter \in {"success", "failure"}
             /\ last'.adapter = "success" /\ ~last'.dbfail
                   /\ Present(last'.tracking_number)
                => /\ last'.counted = "success"
                   /\ store'[last'.tracking_number].status = last'.fetched
      ]_vars

\* ------------------------------------------------------------------ failure claims
\* the persisted status and tracking_data of every row are left as they are
RowsKept ==
    \A p \in Ids : /\ store'[p].status = store[p].status
                   /\ store'[p].tracking_data = store[p].tracking_data

\* C27: when tracking a package ends in failure (the adapter reports
\* failure, or an exception is raised before the write-back) in an iteration
\* of either refresh loop or in track_package, the persisted status and
\* tracking_data of every package are exactly as before; when the initial
\* tracking of create_package ends so, the new row keeps the unset status
\* and tracking_data it was created with and no other row changes.
C27_FailureLeavesRowUntouched ==
    [][/\ (last'.run \in {"job", "req"} /\ last'.adapter # "success")
          => RowsKept
       /\ (attempt'.op = "track" /\ attempt'.adapter # "success")
          => RowsKept
       /\ (attempt'.op = "create" /\ attempt'.adapter # "success")
          => /\ store'[attempt'.tracking_number].status = NoStatus
             /\ store'[attempt'.tracking_number].tracking_data = NoStatus
             /\ \A p \in Ids \ {attempt'.tracking_number} :
                   store'[p] = store[p]]_vars

\* a failed track_package on a package whose status is set
C27_Witness ==
    /\ attempt.op = "track"
    /\ attempt.adapter = "failure"
    /\ store[attempt.tracking_number].status # NoStatus

\* ------------------------------------------------------------------ coverage claims
\* C28: for a package with notify_enabled true no change of the persisted
\* status from a set value to a different one stays unreported: once the
\* scheduled loop has fetched the package's status and written it back,
\* every change made before (by a scheduled run, an on-demand run or a
\* track call) has been answered by a change notification.
C28_NoChangeEscapesDetector ==
    (/\ last.run = "job"
     /\ last.adapter = "success"
     /\ ~last.dbfail
     /\ last.notify_enabled
     /\ Present(last.tracking_number)
     /\ store[last.tracking_number].notify_enabled)
    => ~unnotified[last.tracking_number]

Shadowed ==
    {"global.sagawa", "kr.hanjin", "kr.epost", "kr.lotte", "kr.kdexp",
     "kr.cjlogistics"}
Returned ==
    {"global.jppost", "global.ups", "global.chinapost", "global.fedex",
     "global.dhl", "kr.cj"}

\* C30: with the built-in registry detect_carrier returns none of
\* global.sagawa, kr.hanjin, kr.epost, kr.lotte, kr.kdexp, kr.cjlogistics:
\* whenever a rule of one of them matches the normalized input, the carrier
\* returned is global.fedex or global.dhl for global.sagawa, and for the
\* others a rule of higher priority or kr.cj; and each of global.jppost,
\* global.ups, global.chinapost, global.fedex, global.dhl and kr.cj is
\* returned for some input.
C30_ShadowedCarriers ==
    (detection.op = "detect" /\ registry = CARRIER_PATTERNS)
    => LET s == detection.out.normalized
           got == detection.out.result.carrier
       IN  /\ got \notin Shadowed
           /\ \A i \in MatchingRules(registry, s) :
                 /\ (Len(s) >= 5 /\ registry[i].carrier = "global.sagawa")
                    => got \in {"global.fedex", "global.dhl"}
                 /\ (/\ Len(s) >= 5
                     /\ registry[i].carrier \in Shadowed
                     /\ registry[i].carrier # "global.sagawa")
                    => \/ got = "kr.cj"
                       \/ \E j \in 1..Len(registry) :
                             /\ registry[j].carrier = got
                             /\ registry[j].priority > registry[i].priority
           /\ \A c \in Returned :
                 \E x \in Samples :
                    detect_carrier(registry, x).result.carrier = c

\* thirteen digits given to the built-in registry: the six domestic rules
\* match and the first registered one is returned
C30_Witness ==
    /\ detection.op = "detect"
    /\ registry = CARRIER_PATTERNS
    /\ Len(detection.out.normalized) = 13
    /\ detection.out.result.carrier = "kr.cj"
    /\ {registry[i].carrier : i \in MatchingRules(registry,
                                                  detection.out.normalized)}
          = {"kr.cj"} \cup (Shadowed \ {"global.sagawa"})
====
